---------------------------- MODULE Spec2Model ----------------------------
(***************************************************************************)
(* typed-mongo / typed-mongo-gen: field path introspection of Pydantic     *)
(* models (introspect.py) and generation of the runtime .py / stub .pyi    *)
(* pair (codegen.py, cli.py).                                              *)
(*                                                                         *)
(* Python str values are sequences of Unicode code points, so that         *)
(* concatenation, "." joining, replace() and sorted() are computed as      *)
(* Python computes them.  Classes are identified by their class name.      *)
(***************************************************************************)
EXTENDS Integers, Sequences, FiniteSets, TLC

VARIABLES
    classes,      \* walker: class name -> [model_fields, alias_generator]
    mode,         \* walker: "paths" (collect_field_paths) or "types" (collect_field_path_types)
    pc,           \* walker: "idle", "walking"
    todo,         \* walker: root models still to be collected by the driver
    stack,        \* walker: the Python call stack of _walk / _walk_with_types
    paths,        \* walker: the set[str] that _walk fills
    path_types,   \* walker: the dict[str, Any] that _walk_with_types fills
    results,      \* walker: root model -> value returned by the collect_* call
    walked,       \* walker: roots whose collect_* call has returned
    entered,      \* walker (history): models a call of the running traversal was made on
    steps,        \* walker (history): steps the walker has taken
    alias_in,     \* alias resolver: the FieldInfo and alias_generator _resolve_alias is given
    alias_out,    \* alias resolver: what _resolve_alias returned
    render_in,    \* renderer: the annotation and module_aliases given
    render_out,   \* renderer: the source text returned for it
    entry,        \* generator: "cli" (generate) or "api" (write_field_paths called directly)
    sources,      \* generator: the sources given to generate
    src_idx,      \* generator: the source _import_sources is at
    sys_modules,  \* generator: the sources imported so far
    registry,     \* generator: typed_mongo's _MODEL_REGISTRY
    models,       \* generator: the mapping write_field_paths is called with
    locals,       \* generator: what the pre-pass of write_field_paths computed
    emit_pc,      \* generator: where the run is
    next_model,   \* generator: the entry of models the writing loop is at
    files,           \* generator: the two output paths, each absent or with its content
    files0,          \* generator (history): files when the run began
    outcome,      \* generator: how the run ended
    targets,      \* generator: the runtime path and the stub path write_field_paths is given
    defined,      \* registry (history): the classes defined since the last clear_registry
    class_count,  \* registry: the number of classes defined so far
    got,          \* registry: the last result of get_registry, with the history at the call
    handles       \* registry: the mappings get_registry returned that callers still hold

walk_vars == <<classes, mode, pc, todo, stack, paths, path_types, results, walked, entered, steps>>
alias_vars == <<alias_in, alias_out>>
render_vars == <<render_in, render_out>>

emit_vars == <<entry, sources, src_idx, sys_modules, registry, models, locals, emit_pc,
               next_model, files, files0, outcome, targets>>

registry_vars == <<defined, class_count, got, handles>>

vars == <<walk_vars, alias_vars, render_vars, emit_vars, registry_vars>>

\* the value of a variable nothing has been assigned to yet
NotYet == [kind |-> "not yet"]

-----------------------------------------------------------------------------
(* Python str as a sequence of code points *)

DOT == <<46>>
EmptyStr == <<>>

\* str.__lt__: lexicographic order on code points, a proper prefix sorts first
StrLess(s, t) ==
    \E i \in 1..(Len(t)) :
        /\ \A k \in 1..(i - 1) : k <= Len(s) /\ s[k] = t[k]
        /\ (i > Len(s) \/ (i <= Len(s) /\ s[i] < t[i]))
        /\ i - 1 <= Len(s)

\* sorted(S) for a set of str
RECURSIVE sorted(_)
sorted(S) ==
    IF S = {} THEN <<>>
    ELSE LET least == CHOOSE s \in S : \A t \in S \ {s} : StrLess(s, t)
         IN  <<least>> \o sorted(S \ {least})

-----------------------------------------------------------------------------
(* Type annotations as typing.get_origin / get_args see them *)

NoneType == [kind |-> "NoneType"]
AnyType == [kind |-> "Any"]
Builtin(name) == [kind |-> "builtin", name |-> name]
ModelClass(name) == [kind |-> "model", name |-> name]
ListOf(x) == [kind |-> "list", args |-> <<x>>]
BareList == [kind |-> "list", args |-> <<>>]
UnionOf(xs) == [kind |-> "union", args |-> xs]
AnnotatedOf(x) == [kind |-> "Annotated", args |-> <<x>>]
DictOf(k, v) == [kind |-> "dict", args |-> <<k, v>>]
BareDict == [kind |-> "dict", args |-> <<>>]
LiteralOf(values) == [kind |-> "Literal", args |-> values]
\* an annotation none of the functions has a branch for, with its repr()
Other(repr) == [kind |-> "other", repr |-> repr]
TypeAliasOf(x) == [kind |-> "TypeAliasType", value |-> x]
Optional(x) == UnionOf(<<x, NoneType>>)

-----------------------------------------------------------------------------
(* Field metadata: FieldInfo.serialization_alias / validation_alias *)

None == [kind |-> "None"]
StrValue(s) == [kind |-> "str", value |-> s]
AliasChoices(s, t) == [kind |-> "AliasChoices", choices |-> <<s, t>>]
AliasPath(s) == [kind |-> "AliasPath", path |-> <<s>>]

\* a FieldInfo together with the key it has in model_fields
FieldInfo(name, ser, val, ann) ==
    [name |-> name, serialization_alias |-> ser, validation_alias |-> val,
     annotation |-> ann]

\* model_config["alias_generator"]: None or a callable str -> str
to_upper(s) == [i \in 1..Len(s) |-> IF s[i] >= 97 /\ s[i] <= 122 THEN s[i] - 32 ELSE s[i]]
underscored(s) == <<95>> \o s
CallGenerator(gen, s) ==
    CASE gen = "to_upper" -> to_upper(s)
      [] gen = "underscored" -> underscored(s)

\* introspect.py _resolve_alias, on the FieldInfo and the model's alias_generator
_resolve_alias_generator_first(info, gen) ==
    IF gen # "None" THEN CallGenerator(gen, info.name)
    ELSE IF info.serialization_alias # None THEN info.serialization_alias.value
    ELSE IF info.validation_alias # None /\ info.validation_alias.kind = "str"
        THEN info.validation_alias.value
    ELSE info.name

_resolve_alias(info, gen) ==
    IF info.serialization_alias # None THEN info.serialization_alias.value
    ELSE IF info.validation_alias # None /\ info.validation_alias.kind = "str"
        THEN info.validation_alias.value
    ELSE IF gen # "None" THEN CallGenerator(gen, info.name)
    ELSE info.name

\* introspect.py _extract_base_models: the model classes under any nesting of
\* TypeAliasType, Annotated, list and Union, None variants skipped
RECURSIVE _extract_base_models(_)
RECURSIVE extract_each(_)

_extract_base_models_nolist(annotation) ==
    CASE annotation.kind = "TypeAliasType" -> _extract_base_models(annotation.value)
      [] annotation.kind = "Annotated" -> _extract_base_models(annotation.args[1])
      [] annotation.kind = "union" -> extract_each(annotation.args)
      [] annotation.kind = "model" -> <<annotation.name>>
      [] OTHER -> <<>>

extract_each_first(args) ==
    IF args = <<>> THEN <<>> ELSE _extract_base_models(Head(args))

extract_each(args) ==
    IF args = <<>> THEN <<>>
    ELSE (IF Head(args) = NoneType THEN <<>> ELSE _extract_base_models(Head(args)))
         \o extract_each(Tail(args))

_extract_base_models(annotation) ==
    CASE annotation.kind = "TypeAliasType" -> _extract_base_models(annotation.value)
      [] annotation.kind = "Annotated" -> _extract_base_models(annotation.args[1])
      [] annotation.kind = "list" ->
            IF annotation.args # <<>> THEN _extract_base_models(annotation.args[1])
            ELSE <<>>
      [] annotation.kind = "union" -> extract_each(annotation.args)
      [] annotation.kind = "model" -> <<annotation.name>>
      [] OTHER -> <<>>

-----------------------------------------------------------------------------
(* The schemas the walker is run on *)

Models == {"A", "B"}
ModelOrder == <<"A", "B">>

\* declared field names, in declaration order: "y", "x", "z"
FieldNames == <<<<121>>, <<120>>, <<122>>>>
\* explicit serialization aliases in use: "y"
SerAliases == {<<121>>}

\* bounds of the model
MaxTotalFields == 3
MaxStack == 5

WalkAnnotations ==
    { Optional(Builtin("str")),
      ModelClass("A"), ModelClass("B"),
      ListOf(ModelClass("A")),
      ListOf(ListOf(ModelClass("B"))),
      Optional(ListOf(ModelClass("B"))),
      UnionOf(<<ModelClass("A"), ModelClass("B"), NoneType>>) }

\* the FieldInfo choices for the field declared n-th: an explicit alias is
\* never the field's own name
FieldChoices(n) ==
    { FieldInfo(FieldNames[n], ser, None, ann) :
        ser \in {None} \cup {StrValue(s) : s \in SerAliases \ {FieldNames[n]}},
        ann \in WalkAnnotations }

FieldLists ==
    UNION { { fs \in [1..n -> UNION {FieldChoices(k) : k \in 1..n}] :
                \A k \in 1..n : fs[k] \in FieldChoices(k) } :
            n \in 0..Len(FieldNames) }

ModelShapes == { [model_fields |-> fs, alias_generator |-> "None"] : fs \in FieldLists }

TotalFields(cs) == Len(cs["A"].model_fields) + Len(cs["B"].model_fields)

Schemas == { cs \in [Models -> ModelShapes] : TotalFields(cs) <= MaxTotalFields }

-----------------------------------------------------------------------------
(* introspect.py _walk / _walk_with_types as a call stack *)

\* full_path = f"{prefix}{alias}" if not prefix else f"{prefix}.{alias}"
FullPath_flat(prefix, alias) == alias
FullPath_always_dotted(prefix, alias) == prefix \o DOT \o alias
FullPath(prefix, alias) ==
    IF prefix = EmptyStr THEN prefix \o alias ELSE prefix \o DOT \o alias

\* path_types[full_path] = annotation on an insertion-ordered dict
DictHas(d, key) == \E i \in 1..Len(d) : d[i].key = key
DictSet_first_kept(d, key, value) ==
    IF DictHas(d, key) THEN d ELSE Append(d, [key |-> key, value |-> value])
DictSet(d, key, value) ==
    IF DictHas(d, key)
    THEN [i \in 1..Len(d) |-> IF d[i].key = key THEN [key |-> key, value |-> value] ELSE d[i]]
    ELSE Append(d, [key |-> key, value |-> value])
DictKeys(d) == {d[i].key : i \in 1..Len(d)}
DictGet(d, key) == d[CHOOSE i \in 1..Len(d) : d[i].key = key].value

\* the seen set a collect_* call starts its traversal with: frozenset()
InitialSeen(root) == {}

\* `nested not in seen`
NotInSeen_never(nested, seen) == TRUE
NotInSeen_global(nested, seen) == nested \notin entered
NotInSeen(nested, seen) == nested \notin seen

\* the seen set passed down: seen | {nested}
SeenBelow_unchanged(seen, nested) == seen
SeenBelow(seen, nested) == seen \cup {nested}

NewFrame(model, prefix, seen) ==
    [model |-> model, prefix |-> prefix, seen |-> seen,
     idx |-> 1, cur |-> EmptyStr, pending |-> <<>>]

Top == stack[Len(stack)]
TopFields == classes[Top.model].model_fields
PopStack == SubSeq(stack, 1, Len(stack) - 1)

\* the frame once the nested model at the head of `pending` is dealt with:
\* the inner for loop goes on, or the outer loop moves to the next field
Advance(frame) ==
    IF Len(frame.pending) > 1
    THEN [frame EXCEPT !.pending = Tail(frame.pending)]
    ELSE [frame EXCEPT !.pending = <<>>, !.cur = EmptyStr, !.idx = frame.idx + 1]

\* collect_field_paths: `return sorted(paths)`
ReturnPaths_unsorted(ps) ==
    LET ordered == sorted(ps)
    IN  [i \in 1..Len(ordered) |-> ordered[Len(ordered) + 1 - i]]
ReturnPaths(ps) == sorted(ps)

\* the driver calls collect_field_paths(model) / collect_field_path_types(model)
CanCollect == pc = "idle" /\ todo # <<>>
Collect ==
    /\ CanCollect
    /\ pc' = "walking"
    /\ stack' = <<NewFrame(Head(todo), EmptyStr, InitialSeen(Head(todo)))>>
    /\ paths' = {}
    /\ path_types' = <<>>
    /\ entered' = {Head(todo)}
    /\ steps' = steps + 1
    /\ UNCHANGED <<classes, mode, todo, results, walked>>

\* one iteration of `for field_name in model.model_fields` up to the inner loop
CanVisitField == pc = "walking" /\ Top.pending = <<>> /\ Top.idx <= Len(TopFields)
VisitField ==
    /\ CanVisitField
    /\ LET info == TopFields[Top.idx]
           alias == _resolve_alias(info, classes[Top.model].alias_generator)
           full_path == FullPath(Top.prefix, alias)
           nested_models == _extract_base_models(info.annotation)
           frame == IF nested_models = <<>>
                    THEN [Top EXCEPT !.idx = Top.idx + 1]
                    ELSE [Top EXCEPT !.cur = full_path, !.pending = nested_models]
       IN  /\ stack' = Append(PopStack, frame)
           /\ IF mode = "paths"
              THEN paths' = paths \cup {full_path} /\ UNCHANGED path_types
              ELSE path_types' = DictSet(path_types, full_path, info.annotation)
                   /\ UNCHANGED paths
    /\ steps' = steps + 1
    /\ UNCHANGED <<classes, mode, pc, todo, results, walked, entered>>

\* `if nested not in seen: _walk(nested, full_path, paths, seen | {nested})`
CanDescend ==
    /\ pc = "walking"
    /\ Top.pending # <<>>
    /\ NotInSeen(Head(Top.pending), Top.seen)
    /\ Len(stack) < MaxStack
Descend ==
    /\ CanDescend
    /\ LET nested == Head(Top.pending)
       IN  /\ stack' = Append(Append(PopStack, Advance(Top)),
                           NewFrame(nested, Top.cur, SeenBelow(Top.seen, nested)))
           /\ entered' = entered \cup {nested}
    /\ steps' = steps + 1
    /\ UNCHANGED <<classes, mode, pc, todo, paths, path_types, results, walked>>

\* `nested` is in seen: the inner loop moves on
CanSkipSeen ==
    /\ pc = "walking"
    /\ Top.pending # <<>>
    /\ ~NotInSeen(Head(Top.pending), Top.seen)
SkipSeen ==
    /\ CanSkipSeen
    /\ stack' = Append(PopStack, Advance(Top))
    /\ steps' = steps + 1
    /\ UNCHANGED <<classes, mode, pc, todo, paths, path_types, results, walked, entered>>

\* a nested _walk call has run through its fields and returns
CanReturn ==
    /\ pc = "walking"
    /\ Len(stack) > 1
    /\ Top.pending = <<>>
    /\ Top.idx > Len(TopFields)
Return ==
    /\ CanReturn
    /\ stack' = PopStack
    /\ steps' = steps + 1
    /\ UNCHANGED <<classes, mode, pc, todo, paths, path_types, results, walked, entered>>

\* the outermost call returns: `return sorted(paths)` / `return path_types`
CanCollectReturn ==
    /\ pc = "walking"
    /\ Len(stack) = 1
    /\ Top.pending = <<>>
    /\ Top.idx > Len(TopFields)
CollectReturn ==
    /\ CanCollectReturn
    /\ results' = [results EXCEPT ![Top.model] =
                      IF mode = "paths" THEN ReturnPaths(paths) ELSE path_types]
    /\ walked' = walked \cup {Top.model}
    /\ todo' = Tail(todo)
    /\ stack' = <<>>
    /\ pc' = "idle"
    /\ steps' = steps + 1
    /\ UNCHANGED <<classes, mode, paths, path_types, entered>>

\* _walk as the recursive function it is: the paths one call adds
RECURSIVE walk_paths(_, _, _, _)
walk_paths(cs, model, prefix, seen) ==
    LET fields == cs[model].model_fields
        PathsOf(info) ==
            LET full_path == FullPath(prefix, _resolve_alias(info, cs[model].alias_generator))
                nested_models == _extract_base_models(info.annotation)
            IN  {full_path} \cup
                UNION { IF NotInSeen(nested_models[j], seen)
                        THEN walk_paths(cs, nested_models[j], full_path,
                                        SeenBelow(seen, nested_models[j]))
                        ELSE {} : j \in 1..Len(nested_models) }
    IN  UNION { PathsOf(fields[i]) : i \in 1..Len(fields) }

\* collect_field_paths as a function of the schema and the root model
collect_field_paths(cs, model) ==
    ReturnPaths(walk_paths(cs, model, EmptyStr, InitialSeen(model)))

\* _walk_with_types as the recursive function it is: the assignments
\* path_types[full_path] = annotation one call makes, in order
RECURSIVE Concat(_)
Concat(seqs) == IF seqs = <<>> THEN <<>> ELSE Head(seqs) \o Concat(Tail(seqs))

RECURSIVE walk_types(_, _, _, _)
walk_types(cs, model, prefix, seen) ==
    LET fields == cs[model].model_fields
        TypesOf(info) ==
            LET full_path == FullPath(prefix, _resolve_alias(info, cs[model].alias_generator))
                nested_models == _extract_base_models(info.annotation)
            IN  <<[key |-> full_path, value |-> info.annotation]>> \o
                Concat([j \in 1..Len(nested_models) |->
                          IF NotInSeen(nested_models[j], seen)
                          THEN walk_types(cs, nested_models[j], full_path,
                                          SeenBelow(seen, nested_models[j]))
                          ELSE <<>>])
    IN  Concat([i \in 1..Len(fields) |-> TypesOf(fields[i])])

RECURSIVE DictOfAssignments(_, _)
DictOfAssignments(d, assignments) ==
    IF assignments = <<>> THEN d
    ELSE DictOfAssignments(DictSet(d, Head(assignments).key, Head(assignments).value),
                           Tail(assignments))

\* collect_field_path_types as a function of the schema and the root model
collect_field_path_types(cs, model) ==
    DictOfAssignments(<<>>, walk_types(cs, model, EmptyStr, InitialSeen(model)))

\* no collect_* call made or pending
WalkIdle(cs, order) ==
    /\ classes = cs
    /\ pc = "idle"
    /\ todo = order
    /\ stack = <<>>
    /\ paths = {}
    /\ path_types = <<>>
    /\ results = [m \in Models |-> <<>>]
    /\ walked = {}
    /\ entered = {}
    /\ steps = 0

NoFields == [m \in Models |-> [model_fields |-> <<>>, alias_generator |-> "None"]]
NoWalk == WalkIdle(NoFields, <<>>) /\ mode = "paths"
NoAlias == alias_in = NotYet /\ alias_out = NotYet
NoRender == render_in = NotYet /\ render_out = NotYet
NoEmit ==
    /\ entry = "none" /\ sources = <<>> /\ src_idx = 1 /\ sys_modules = {}
    /\ registry = <<>> /\ models = <<>> /\ emit_pc = "done" /\ next_model = 1
    /\ locals = NotYet
    /\ files = [p \in {"runtime", "stub"} |-> NotYet]
    /\ files0 = [p \in {"runtime", "stub"} |-> NotYet]
    /\ outcome = "none"
    /\ targets = NotYet
NoRegistry ==
    /\ defined = <<>> /\ class_count = 0
    /\ got = [called |-> FALSE, value |-> <<>>, at |-> <<>>]
    /\ handles = <<>>

InitWalk ==
    /\ \E cs \in Schemas : WalkIdle(cs, ModelOrder)
    /\ mode \in {"paths", "types"}
    /\ NoAlias /\ NoRender /\ NoEmit /\ NoRegistry

WalkStep == Collect \/ VisitField \/ Descend \/ SkipSeen \/ Return \/ CollectReturn

NextWalk == WalkStep /\ UNCHANGED <<alias_vars, render_vars, emit_vars, registry_vars>>

SpecWalk == InitWalk /\ [][NextWalk]_vars

-----------------------------------------------------------------------------
(* Vocabulary of the properties of the walker *)

Range(seq) == {seq[i] : i \in 1..Len(seq)}

\* a "." p, written out
Dotted(a, p) == a \o <<46>> \o p

HasPrefix(q, a) == Len(q) >= Len(a) /\ SubSeq(q, 1, Len(a)) = a

\* the p with a.p in R
Below(R, a) ==
    { SubSeq(q, Len(a) + 2, Len(q)) : q \in {r \in R : HasPrefix(r, a \o <<46>>)} }

FieldsOf(m) == classes[m].model_fields
AliasOf(m, i) == _resolve_alias(FieldsOf(m)[i], classes[m].alias_generator)
NestedIn(m, i) == _extract_base_models(FieldsOf(m)[i].annotation)

\* the models the fields of m refer to, and those reachable from m
Refs(m) == UNION {Range(NestedIn(m, i)) : i \in 1..Len(FieldsOf(m))}
RECURSIVE ReachFrom(_, _)
ReachFrom(S, n) ==
    IF n = 0 THEN S ELSE ReachFrom(S \cup UNION {Refs(r) : r \in S}, n - 1)
Reach(m) == ReachFrom(Refs(m), Cardinality(Models))
OnCycle(m) == m \in Reach(m)

AllCollected == pc = "idle" /\ todo = <<>>
\* some step of the walker can be taken
CanStep ==
    CanCollect \/ CanVisitField \/ CanDescend \/ CanSkipSeen \/ CanReturn \/ CanCollectReturn
PathsCollected(m) == mode = "paths" /\ m \in walked

\* no model is on the call stack twice
Distinct(frames) ==
    \A i, j \in 1..Len(frames) : i < j => frames[i].model # frames[j].model

StrictlySorted(seq) == \A i \in 1..(Len(seq) - 1) : StrLess(seq[i], seq[i + 1])

\* a list of records nested to any depth, optionally inside Optional: the record
RECURSIVE ListElement(_)
ListElement(ann) ==
    IF ann.kind = "list" /\ ann.args # <<>> THEN ListElement(ann.args[1]) ELSE ann
IsListOfModel(ann) ==
    ann.kind = "list" /\ ann.args # <<>> /\ ListElement(ann).kind = "model"
IsTransparentList(ann) ==
    \/ IsListOfModel(ann)
    \/ /\ ann.kind = "union"
       /\ Len(ann.args) = 2
       /\ ann.args[2] = NoneType
       /\ IsListOfModel(ann.args[1])
PlainOf(ann) ==
    IF ~IsTransparentList(ann) THEN ann
    ELSE IF ann.kind = "list" THEN ListElement(ann)
    ELSE ListElement(ann.args[1])
\* the schema with every such field declared with the plain record type
PlainSchema ==
    [m \in Models |->
        [classes[m] EXCEPT !.model_fields =
            [i \in 1..Len(classes[m].model_fields) |->
                [classes[m].model_fields[i] EXCEPT !.annotation = PlainOf(@)]]]]

-----------------------------------------------------------------------------
\* a bound on the steps of the walker on the schema at hand: a call stack holds
\* at most Cardinality(Models) + 1 frames, a frame starts at most NestedTotal
\* calls, and takes at most one step per field, per nested model and to return
RECURSIVE Power(_, _)
Power(b, e) == IF e = 0 THEN 1 ELSE b * Power(b, e - 1)
RECURSIVE SumTo(_, _)
SumTo(f(_), n) == IF n = 0 THEN f(0) ELSE f(n) + SumTo(f, n - 1)
NestedTotal(m) ==
    LET idx == 1..Len(FieldsOf(m))
        RECURSIVE Sum(_)
        Sum(I) == IF I = {} THEN 0
                  ELSE LET i == CHOOSE k \in I : TRUE
                       IN  Len(NestedIn(m, i)) + Sum(I \ {i})
    IN  Sum(idx)
StepBound ==
    LET F == TotalFields(classes)
        E == NestedTotal("A") + NestedTotal("B")
        PowerOfE(d) == Power(E, d)
        Frames == SumTo(PowerOfE, Cardinality(Models))
    IN  Cardinality(Models) * (1 + Frames * (F + E + 1))

(* C3: collect_field_paths and collect_field_path_types terminate on every
   schema, cyclic ones included: the walker is never stuck before the call
   returns, and the calls return within a number of steps that the schema
   bounds. *)
C3_Terminates ==
    /\ steps <= StepBound
    /\ ~AllCollected => CanStep

\* both models collected on a schema where A and B refer to each other
C3_Witness ==
    /\ AllCollected
    /\ mode = "types"
    /\ "B" \in Refs("A") /\ "A" \in Refs("B")
    /\ \E i \in 1..Len(FieldsOf("A")) : FieldsOf("A")[i].annotation.kind = "union"

(* C4: no model, the root included, is entered more than once along one
   recursion branch: the call stack never holds a model twice. *)
C4_NoModelTwiceOnBranch == pc = "walking" => Distinct(stack)

(* C5 as claimed: for every model M with a field of resolved alias a whose type
   is the nested record N, every path p of collect_field_paths(N) is a path a.p
   of collect_field_paths(M), cyclic schemas included. *)
C5_NestedPathsPrefixed_Claimed ==
    (AllCollected /\ mode = "paths") =>
        \A M \in Models : \A i \in 1..Len(FieldsOf(M)) :
            \A N \in Models :
                FieldsOf(M)[i].annotation = ModelClass(N) =>
                    \A p \in Range(results[N]) :
                        Dotted(AliasOf(M, i), p) \in Range(results[M])

(* C5: the same, for a nested record N that is not on a reference cycle
   (N is not reachable from itself). *)
C5_NestedPathsPrefixed ==
    (AllCollected /\ mode = "paths") =>
        \A M \in Models : \A i \in 1..Len(FieldsOf(M)) :
            \A N \in Models :
                (FieldsOf(M)[i].annotation = ModelClass(N) /\ ~OnCycle(N)) =>
                    \A p \in Range(results[N]) :
                        Dotted(AliasOf(M, i), p) \in Range(results[M])

\* A has a field of type B, B is not on a cycle and has two paths
C5_Witness ==
    /\ AllCollected /\ mode = "paths"
    /\ ~OnCycle("B")
    /\ Len(results["B"]) = 2
    /\ \E i \in 1..Len(FieldsOf("A")) :
          /\ FieldsOf("A")[i].annotation = ModelClass("B")
          /\ \A p \in Range(results["B"]) :
                Dotted(AliasOf("A", i), p) \in Range(results["A"])

(* C6: a list wrapper is transparent: collect_field_paths returns what it
   returns when every field typed list[N] (to any depth, optionally inside
   Optional) is declared with the plain type N instead, and returns the path
   of such a field once. *)
C6_ListTransparent ==
    \A M \in Models :
        PathsCollected(M) =>
            /\ results[M] = collect_field_paths(PlainSchema, M)
            /\ \A i \in 1..Len(FieldsOf(M)) :
                  IsTransparentList(FieldsOf(M)[i].annotation) =>
                      Cardinality({k \in 1..Len(results[M]) :
                                      results[M][k] = AliasOf(M, i)}) = 1

\* A is collected, has a field typed list[list[B]], and B's field shows below it
C6_Witness ==
    /\ PathsCollected("A")
    /\ \E i \in 1..Len(FieldsOf("A")) :
          /\ FieldsOf("A")[i].annotation = ListOf(ListOf(ModelClass("B")))
          /\ Below(Range(results["A"]), AliasOf("A", i)) # {}

(* C7 as claimed: two sibling fields f and g of the collected model with the
   same nested record type N have the same paths below them. *)
SameNested(M, i, j) ==
    /\ i # j
    /\ Len(NestedIn(M, i)) = 1
    /\ NestedIn(M, i) = NestedIn(M, j)
C7_SiblingsAgree_Claimed ==
    \A M \in Models :
        PathsCollected(M) =>
            \A i, j \in 1..Len(FieldsOf(M)) :
                SameNested(M, i, j) =>
                    Below(Range(results[M]), AliasOf(M, i))
                        = Below(Range(results[M]), AliasOf(M, j))

(* C7: the same, when no third field of the model resolves to the wire alias
   of f or of g. *)
NoThirdAlias(M, i, j) ==
    \A k \in 1..Len(FieldsOf(M)) :
        k \notin {i, j} => AliasOf(M, k) \notin {AliasOf(M, i), AliasOf(M, j)}
C7_SiblingsAgree ==
    \A M \in Models :
        PathsCollected(M) =>
            \A i, j \in 1..Len(FieldsOf(M)) :
                (SameNested(M, i, j) /\ NoThirdAlias(M, i, j)) =>
                    Below(Range(results[M]), AliasOf(M, i))
                        = Below(Range(results[M]), AliasOf(M, j))

\* two fields of A with different aliases, both of nested type B, paths below both
C7_Witness ==
    /\ PathsCollected("A")
    /\ \E i, j \in 1..Len(FieldsOf("A")) :
          /\ SameNested("A", i, j)
          /\ NestedIn("A", i) = <<"B">>
          /\ AliasOf("A", i) # AliasOf("A", j)
          /\ Below(Range(results["A"]), AliasOf("A", i)) # {}
          /\ Below(Range(results["A"]), AliasOf("A", j)) # {}

(* C8: for a model none of whose fields contains a nested record,
   collect_field_paths returns exactly the resolved aliases of its fields,
   sorted lexicographically and without duplicates. *)
C8_FlatModel ==
    \A M \in Models :
        (PathsCollected(M) /\ Refs(M) = {}) =>
            /\ Range(results[M]) = {AliasOf(M, i) : i \in 1..Len(FieldsOf(M))}
            /\ StrictlySorted(results[M])

\* a flat model of three fields, two of them with the same alias
C8_Witness ==
    /\ PathsCollected("A")
    /\ Refs("A") = {}
    /\ Len(FieldsOf("A")) = 3
    /\ Len(results["A"]) = 2

-----------------------------------------------------------------------------
(* introspect.py _resolve_alias called on its own *)

\* "id", "x"
AliasNames == {<<105, 100>>, <<120>>}
\* "_id", "v"
ExplicitAliases == {<<95, 105, 100>>, <<118>>}
SerializationAliases == {None} \cup {StrValue(s) : s \in ExplicitAliases}
ValidationAliases ==
    {None} \cup {StrValue(s) : s \in ExplicitAliases}
           \cup {AliasChoices(<<95, 105, 100>>, <<105, 100>>), AliasPath(<<118>>)}
Generators == {"None", "to_upper", "underscored"}

ResolveAlias ==
    /\ alias_in # NotYet
    /\ alias_out = NotYet
    /\ alias_out' = [value |-> _resolve_alias(alias_in.info, alias_in.gen)]
    /\ UNCHANGED <<alias_in, walk_vars, render_vars, emit_vars, registry_vars>>

InitAlias ==
    /\ \E name \in AliasNames, ser \in SerializationAliases,
          val \in ValidationAliases, gen \in Generators :
            alias_in = [info |-> FieldInfo(name, ser, val, Builtin("str")), gen |-> gen]
    /\ alias_out = NotYet
    /\ NoWalk /\ NoRender /\ NoEmit /\ NoRegistry

NextAlias == ResolveAlias

SpecAlias == InitAlias /\ [][NextAlias]_vars

-----------------------------------------------------------------------------
(* codegen.py: annotations to source text.  Source text is a string. *)

RECURSIVE JoinStr(_, _)
JoinStr(sep, parts) ==
    IF parts = <<>> THEN ""
    ELSE IF Len(parts) = 1 THEN parts[1]
    ELSE parts[1] \o sep \o JoinStr(sep, Tail(parts))

\* annotation.__name__ and annotation.__module__ of a class.  A module is the
\* sequence of the segments of its dotted path.  The classes are A, B and
\* Literal of app.models and a second class A of app.other.
ClassName(c) == IF c \in {"A2", "A3"} THEN "A" ELSE c
ClassModule(c) ==
    CASE c = "A2" -> <<"app", "other">>
      [] c = "A3" -> <<"app_other">>
      [] OTHER -> <<"app", "models">>

\* the dotted path of a module
ModulePath(module) == JoinStr(".", module)

\* _module_alias: "_" + module.replace(".", "_")
_module_alias(module) == "_" \o JoinStr("_", module)

\* repr() of a Literal argument
Repr(v) == IF v.type = "str" THEN "'" \o v.text \o "'" ELSE v.text

\* repr() of an argument of a generic alias: a builtin class by its name, any
\* other class by module.qualname
TypeRepr(arg) ==
    CASE arg.kind = "builtin" -> arg.name
      [] arg.kind = "model" -> ModulePath(ClassModule(arg.name)) \o "." \o ClassName(arg.name)
      [] OTHER -> arg.repr

\* a parameterized generic that no rule names, tuple[X, Y] or set[X], with its repr()
GenericOf(origin, args) ==
    [kind |-> "generic", origin |-> origin, args |-> args,
     repr |-> origin \o "[" \o JoinStr(", ", [i \in 1..Len(args) |-> TypeRepr(args[i])]) \o "]"]

RECURSIVE _annotation_to_source(_, _)
RECURSIVE sources_of(_, _)
sources_of(args, module_aliases) ==
    [i \in 1..Len(args) |-> _annotation_to_source(args[i], module_aliases)]

_annotation_to_source(annotation, module_aliases) ==
    CASE annotation.kind = "NoneType" -> "None"
      [] annotation.kind = "TypeAliasType" ->
            _annotation_to_source(annotation.value, module_aliases)
      [] annotation.kind = "Annotated" ->
            _annotation_to_source(annotation.args[1], module_aliases)
      [] annotation.kind = "union" ->
            JoinStr(" | ", sources_of(annotation.args, module_aliases))
      [] annotation.kind = "list" ->
            IF annotation.args # <<>>
            THEN "list[" \o _annotation_to_source(annotation.args[1], module_aliases) \o "]"
            ELSE "list"
      [] annotation.kind = "dict" ->
            IF annotation.args # <<>> /\ Len(annotation.args) = 2
            THEN "dict[" \o _annotation_to_source(annotation.args[1], module_aliases)
                 \o ", " \o _annotation_to_source(annotation.args[2], module_aliases) \o "]"
            ELSE "dict"
      [] annotation.kind = "Literal" ->
            "Literal[" \o JoinStr(", ", [i \in 1..Len(annotation.args) |->
                                            Repr(annotation.args[i])]) \o "]"
      [] annotation.kind = "Any" -> "Any"
      [] annotation.kind = "builtin" -> annotation.name
      [] annotation.kind = "model" ->
            IF module_aliases # <<>> /\ DictHas(module_aliases, ClassModule(annotation.name))
            THEN DictGet(module_aliases, ClassModule(annotation.name))
                 \o "." \o ClassName(annotation.name)
            ELSE ClassName(annotation.name)
      [] OTHER -> annotation.repr

RECURSIVE _query_value_type_src(_, _)

_query_value_type_src_shallow(annotation, module_aliases) ==
    CASE annotation.kind = "TypeAliasType" ->
            _query_value_type_src(annotation.value, module_aliases)
      [] annotation.kind = "Annotated" ->
            _query_value_type_src(annotation.args[1], module_aliases)
      [] annotation.kind = "list" /\ annotation.args # <<>> ->
            _annotation_to_source(annotation.args[1], module_aliases)
            \o " | " \o _annotation_to_source(annotation, module_aliases)
      [] OTHER -> _annotation_to_source(annotation, module_aliases)

_query_value_type_src_into_unions(annotation, module_aliases) ==
    CASE annotation.kind = "TypeAliasType" ->
            _query_value_type_src(annotation.value, module_aliases)
      [] annotation.kind = "Annotated" ->
            _query_value_type_src(annotation.args[1], module_aliases)
      [] annotation.kind = "list" /\ annotation.args # <<>> ->
            _query_value_type_src(annotation.args[1], module_aliases)
            \o " | " \o _annotation_to_source(annotation, module_aliases)
      [] annotation.kind = "union" ->
            JoinStr(" | ", [i \in 1..Len(annotation.args) |->
                              _query_value_type_src(annotation.args[i], module_aliases)])
      [] OTHER -> _annotation_to_source(annotation, module_aliases)

_query_value_type_src(annotation, module_aliases) ==
    CASE annotation.kind = "TypeAliasType" ->
            _query_value_type_src(annotation.value, module_aliases)
      [] annotation.kind = "Annotated" ->
            _query_value_type_src(annotation.args[1], module_aliases)
      [] annotation.kind = "list" /\ annotation.args # <<>> ->
            LET inner_src == _query_value_type_src(annotation.args[1], module_aliases)
                full_list_src == _annotation_to_source(annotation, module_aliases)
            IN  inner_src \o " | " \o full_list_src
      [] OTHER -> _annotation_to_source(annotation, module_aliases)

\* _collect_imports: the (module, name) pairs an annotation needs imported
RECURSIVE _collect_imports(_)
_collect_imports(annotation) ==
    CASE annotation.kind = "NoneType" -> {}
      [] annotation.kind = "TypeAliasType" -> _collect_imports(annotation.value)
      [] annotation.kind = "Annotated" -> _collect_imports(annotation.args[1])
      [] annotation.kind = "union" ->
            UNION { _collect_imports(annotation.args[i]) : i \in 1..Len(annotation.args) }
      [] annotation.kind = "list" ->
            IF annotation.args # <<>> THEN _collect_imports(annotation.args[1]) ELSE {}
      [] annotation.kind = "dict" ->
            UNION { _collect_imports(annotation.args[i]) : i \in 1..Len(annotation.args) }
      [] annotation.kind = "Literal" -> { <<<<"typing">>, "Literal">> }
      [] annotation.kind = "Any" -> {}
      [] annotation.kind = "builtin" -> {}
      [] annotation.kind = "model" ->
            { <<ClassModule(annotation.name), ClassName(annotation.name)>> }
      [] OTHER -> {}

\* bound of the model: wrappers around a base type
MaxWrap == 3

RenderBases ==
    { Builtin("str"), NoneType, AnyType, ModelClass("A"), BareList,
      DictOf(Builtin("str"), AnyType),
      LiteralOf(<<[type |-> "str", text |-> "a"], [type |-> "int", text |-> "1"]>>),
      Other("tuple[int, str]") }

\* X | None and X | int; typing flattens a union inside a union, and None | None is None
Unions(S) ==
    UNION { {Optional(x), UnionOf(<<x, Builtin("int")>>)} :
            x \in {y \in S : y.kind \notin {"union", "NoneType"}} }

RECURSIVE AnnotationsUpTo(_)
AnnotationsUpTo(d) ==
    IF d = 0 THEN RenderBases
    ELSE LET S == AnnotationsUpTo(d - 1)
         IN  S \cup {ListOf(x) : x \in S} \cup {AnnotatedOf(x) : x \in S}
               \cup {TypeAliasOf(x) : x \in S} \cup Unions(S)

ModuleAliasChoices ==
    { <<>>, <<[key |-> <<"app", "models">>, value |-> _module_alias(<<"app", "models">>)]>> }

Render ==
    /\ render_in # NotYet
    /\ render_out = NotYet
    /\ render_out' =
          [query |-> _query_value_type_src(render_in.annotation, render_in.module_aliases),
           exact |-> _annotation_to_source(render_in.annotation, render_in.module_aliases)]
    /\ UNCHANGED <<render_in, walk_vars, alias_vars, emit_vars, registry_vars>>

InitRender ==
    /\ \E annotation \in AnnotationsUpTo(MaxWrap), module_aliases \in ModuleAliasChoices :
          render_in = [annotation |-> annotation, module_aliases |-> module_aliases]
    /\ render_out = NotYet
    /\ NoWalk /\ NoAlias /\ NoEmit /\ NoRegistry

NextRender == Render

SpecRender == InitRender /\ [][NextRender]_vars

-----------------------------------------------------------------------------
(* cli.py generate and codegen.py write_field_paths: one run of the generator.
   A file is absent or holds the sequence of the parts written to it. *)

Absent == [exists |-> FALSE, content |-> <<>>]
File(content) == [exists |-> TRUE, content |-> content]
\* what an earlier run left in a file
Stale == File(<<[part |-> "stale"]>>)
\* sorted() of module paths and of names, by the lexicographic order of the
\* modules and names in use
ModuleOrder ==
    << <<"app", "models">>, <<"app", "other">>, <<"app_other">>, <<"pymongo", "asynchronous", "database">>,
       <<"typed_mongo">>, <<"typed_mongo", "operators">>, <<"typing">> >>
NameOrder ==
    <<"A", "Any", "AsyncDatabase", "B", "Literal", "Op", "TypedCollection", "TypedDict">>
sorted_modules(S) == SelectSeq(ModuleOrder, LAMBDA m : m \in S)
sorted_names(S) == SelectSeq(NameOrder, LAMBDA n : n \in S)

\* the orders a set can be iterated in
Orders(S) ==
    { order \in [1..Cardinality(S) -> S] :
        \A i, j \in 1..Cardinality(S) : i # j => order[i] # order[j] }

\* _build_module_aliases: the modules exporting a name another user module exports
conflicting_modules(all_imports) ==
    LET user_imports == { p \in all_imports : p[1] # <<"typing">> }
        name_to_modules(name) == { p[1] : p \in { q \in user_imports : q[2] = name } }
    IN  { p[1] : p \in { q \in user_imports : Cardinality(name_to_modules(q[2])) > 1 } }

\* the dict it returns, its keys in the order the set was iterated in
_build_module_aliases(all_imports, order) ==
    [i \in 1..Len(order) |-> [key |-> order[i], value |-> _module_alias(order[i])]]

\* the pre-pass of write_field_paths over models.items()
RECURSIVE model_path_types_of(_, _)
model_path_types_of(cs, ms) ==
    IF ms = <<>> THEN <<>>
    ELSE LET rest == model_path_types_of(cs, SubSeq(ms, 1, Len(ms) - 1))
             last == ms[Len(ms)]
         IN  DictSet(rest, last.name, collect_field_path_types(cs, last.model))

\* model_imports, as the set of its (module, name) pairs
model_imports_of(ms) ==
    { <<ClassModule(ms[i].model), ClassName(ms[i].model)>> : i \in 1..Len(ms) }

all_imports_of_first(cs, ms) ==
    IF ms = <<>> THEN {}
    ELSE LET types == collect_field_path_types(cs, ms[1].model)
         IN  UNION { _collect_imports(types[j].value) : j \in 1..Len(types) }
             \cup { <<ClassModule(ms[1].model), ClassName(ms[1].model)>> }
all_imports_of(cs, ms) ==
    LET types == model_path_types_of(cs, ms)
    IN  UNION { UNION { _collect_imports(types[i].value[j].value) :
                        j \in 1..Len(types[i].value) } : i \in 1..Len(types) }
        \cup model_imports_of(ms)

\* the statements of the headers
From(module, names) == [stmt |-> "from", module |-> module, names |-> names]
ImportAs(module, alias) == [stmt |-> "import", module |-> module, alias |-> alias]

names_of(imports, module) == { p[2] : p \in { q \in imports : q[1] = module } }
modules_of(imports) == { p[1] : p \in imports }

\* _write_headers, the runtime half: docstring and imports
RuntimeHeader(model_imports) ==
    [part |-> "header",
     imports |->
        << From(<<"typing">>, <<"Any">>),
           From(<<"pymongo", "asynchronous", "database">>, <<"AsyncDatabase">>),
           From(<<"typed_mongo">>, <<"TypedCollection">>) >>
        \o LET modules == sorted_modules(modules_of(model_imports))
           IN  [i \in 1..Len(modules) |->
                  From(modules[i], sorted_names(names_of(model_imports, modules[i])))]]

\* _write_headers, the stub half
StubHeader_unsorted(all_imports, module_aliases) ==
    LET typing_names == names_of(all_imports, <<"typing">>) \cup {"Literal", "TypedDict", "Any"}
        direct == { p \in all_imports :
                      p[1] # <<"typing">> /\ ~DictHas(module_aliases, p[1]) }
        direct_modules == sorted_modules(modules_of(direct))
    IN  [part |-> "header",
         imports |->
            << From(<<"typing">>, sorted_names(typing_names)) >>
            \o [i \in 1..Len(direct_modules) |->
                  From(direct_modules[i], sorted_names(names_of(direct, direct_modules[i])))]
            \o [i \in 1..Len(module_aliases) |->
                  ImportAs(module_aliases[i].key, module_aliases[i].value)]
            \o << From(<<"pymongo", "asynchronous", "database">>, <<"AsyncDatabase">>),
                  From(<<"typed_mongo">>, <<"TypedCollection">>),
                  From(<<"typed_mongo", "operators">>, <<"Op">>) >>]
StubHeader(all_imports, module_aliases) ==
    LET typing_names == names_of(all_imports, <<"typing">>) \cup {"Literal", "TypedDict", "Any"}
        direct == { p \in all_imports :
                      p[1] # <<"typing">> /\ ~DictHas(module_aliases, p[1]) }
        direct_modules == sorted_modules(modules_of(direct))
        aliased_modules == sorted_modules(DictKeys(module_aliases))
    IN  [part |-> "header",
         imports |->
            << From(<<"typing">>, sorted_names(typing_names)) >>
            \o [i \in 1..Len(direct_modules) |->
                  From(direct_modules[i], sorted_names(names_of(direct, direct_modules[i])))]
            \o [i \in 1..Len(aliased_modules) |->
                  ImportAs(aliased_modules[i], DictGet(module_aliases, aliased_modules[i]))]
            \o << From(<<"pymongo", "asynchronous", "database">>, <<"AsyncDatabase">>),
                  From(<<"typed_mongo">>, <<"TypedCollection">>),
                  From(<<"typed_mongo", "operators">>, <<"Op">>) >>]

\* "$expr"
EXPR == <<36, 101, 120, 112, 114>>

\* _write_model, the runtime half: the three aliases and the Collection class
RuntimeSection_typed(model_name, model) ==
    [part |-> "section", name |-> model_name,
     path |-> collect_field_paths(classes, model),
     query |-> "dict[str, Any]", fields |-> "dict[str, Any]",
     collection |-> [base |-> "TypedCollection", model_ref |-> model_name]]
RuntimeSection(model_name, model) ==
    [part |-> "section", name |-> model_name,
     path |-> "str", query |-> "dict[str, Any]", fields |-> "dict[str, Any]",
     collection |-> [base |-> "TypedCollection", model_ref |-> model_name]]

\* one entry of the Query TypedDict
QueryEntry_always_op(path, annotation, module_aliases) ==
    [key |-> path,
     value |-> "Op[" \o _query_value_type_src(annotation, module_aliases) \o "]"]
QueryEntry(path, annotation, module_aliases) ==
    LET type_src == _annotation_to_source(annotation, module_aliases)
    IN  [key |-> path,
         value |-> IF type_src = "dict[str, Any]" THEN type_src
                   ELSE "Op[" \o _query_value_type_src(annotation, module_aliases) \o "]"]

\* one entry of the Fields TypedDict
FieldsEntry_as_query(path, annotation, module_aliases) ==
    [key |-> path, value |-> _query_value_type_src(annotation, module_aliases)]
FieldsEntry(path, annotation, module_aliases) ==
    [key |-> path, value |-> _annotation_to_source(annotation, module_aliases)]

\* _write_model, the stub half: Path Literal, Query, Fields and the Collection class
StubSection(cs, model_name, model, types, module_aliases) ==
    LET keys == sorted(DictKeys(types))
    IN  [part |-> "section", name |-> model_name,
         path |-> collect_field_paths(cs, model),
         query |-> [i \in 1..Len(keys) |->
                      QueryEntry(keys[i], DictGet(types, keys[i]), module_aliases)]
                   \o <<[key |-> EXPR, value |-> "dict[str, Any]"]>>,
         fields |-> [i \in 1..Len(keys) |->
                      FieldsEntry(keys[i], DictGet(types, keys[i]), module_aliases)],
         collection |-> [base |-> "TypedCollection",
                         model_ref |-> _annotation_to_source(ModelClass(model), module_aliases)]]

\* the classes a run of the generator can meet, and the fields they declare
EmitModels == {"A", "B", "A2", "A3", "Literal"}

Field(name, annotation) == FieldInfo(name, None, None, annotation)
Shape(model_fields) == [model_fields |-> model_fields, alias_generator |-> "None"]

\* "x", "y", "_id"
EmitShapes(c) ==
    CASE c = "A" ->
            { Shape(<<>>),
              Shape(<<FieldInfo(<<120>>, StrValue(<<95, 105, 100>>), None, Builtin("str")),
                      Field(<<121>>, DictOf(Builtin("str"), AnyType))>>),
              Shape(<<Field(<<120>>, ListOf(ModelClass("B"))),
                      Field(<<121>>, LiteralOf(<<[type |-> "str", text |-> "a"],
                                                 [type |-> "int", text |-> "1"]>>))>>),
              Shape(<<Field(<<120>>, ModelClass("A2")),
                      Field(<<121>>, Optional(ListOf(ListOf(Builtin("str")))))>>),
              Shape(<<Field(<<120>>, GenericOf("tuple", <<ModelClass("A2"), Builtin("int")>>))>>),
              Shape(<<Field(<<120>>, ListOf(ModelClass("A")))>>),
              Shape(<<FieldInfo(<<120>>, StrValue(<<121>>), None, Builtin("str")),
                      Field(<<121>>, ListOf(Builtin("int")))>>),
              Shape(<<Field(<<120>>,
                            UnionOf(<<ModelClass("B"), ModelClass("A2"), NoneType>>))>>) }
      [] c = "B" ->
            { Shape(<<Field(<<120>>, Builtin("str"))>>),
              Shape(<<Field(<<121>>, ModelClass("A2"))>>) }
      [] c = "A2" ->
            { Shape(<<>>), Shape(<<Field(<<120>>, ModelClass("B"))>>) }
      [] c = "A3" ->
            { Shape(<<Field(<<120>>, Builtin("str"))>>) }
      [] c = "Literal" ->
            { Shape(<<Field(<<120>>, Builtin("str"))>>) }

EmitSchemas ==
    { [c \in EmitModels |->
          CASE c = "A" -> a [] c = "B" -> b [] c = "A2" -> a2 [] c = "A3" -> a3
            [] c = "Literal" -> l] :
        a \in EmitShapes("A"), b \in EmitShapes("B"), a2 \in EmitShapes("A2"),
        a3 \in EmitShapes("A3"), l \in EmitShapes("Literal") }

\* bounds of the model
MaxSources == 2
MaxModels == 2

\* a source of the command line: one that cannot be imported, or a module with
\* the MongoCollectionModel subclasses it defines
Unloadable == [loadable |-> FALSE, id |-> "missing", defines |-> <<>>]
Module(id, defines) == [loadable |-> TRUE, id |-> id, defines |-> defines]
SourceChoices ==
    { Unloadable, Module("empty", <<>>), Module("a", <<"A">>), Module("b", <<"B">>),
      Module("ab", <<"A", "B">>), Module("other", <<"A2">>) }
SourceLists == UNION { [1..n -> SourceChoices] : n \in 0..MaxSources }

\* a mapping of names to model classes, as a caller of write_field_paths builds it
EntryNames == {"A", "B"}
ModelMappings ==
    UNION { { ms \in [1..n -> [name : EntryNames, model : EmitModels]] :
                \A i, j \in 1..n : i # j => ms[i].name # ms[j].name } :
            n \in 0..MaxModels }

\* model.py __init_subclass__: _MODEL_REGISTRY[cls.__name__] = cls
RECURSIVE RegisterAll(_, _)
RegisterAll(reg, classNames) ==
    IF classNames = <<>> THEN reg
    ELSE RegisterAll(DictSet(reg, ClassName(Head(classNames)), Head(classNames)),
                     Tail(classNames))

\* model.py get_registry, as the mapping write_field_paths iterates
get_registry ==
    [i \in 1..Len(registry) |-> [name |-> registry[i].key, model |-> registry[i].value]]

\* pathlib paths: the directory, and the stem and the suffix of the final component
Path(parent, stem, suffix) == [parent |-> parent, stem |-> stem, suffix |-> suffix]
with_suffix_appended(path, suffix) ==
    [path EXCEPT !.stem = path.stem \o path.suffix, !.suffix = suffix]
with_suffix(path, suffix) == [path EXCEPT !.suffix = suffix]
with_name(path, name) == [name EXCEPT !.parent = path.parent]
GeneratedTypes == Path("", "_generated_types", ".py")

\* Path(source) of a source as the command line names it: a file, or a module name
SourcePath(source) ==
    CASE source.id = "a" -> Path("app", "a", ".py")
      [] source.id = "ab" -> Path("app/models", "ab", ".py")
      [] source.id = "other" -> Path("app", "other", ".py")
      [] OTHER -> Path("", source.id, "")

\* the --output option: not given, or a path
OutputChoices == { None, Path("", "out", ".py"), Path("gen", "types", "") }
\* the two paths a caller of write_field_paths passes
ApiTargets == [runtime_path |-> Path("", "out", ".py"), stub_path |-> Path("", "out", ".pyi")]

\* the run ends
Ends(how) == emit_pc' = "done" /\ outcome' = how

\* _import_sources: one source of the loop
ImportSource ==
    /\ emit_pc = "import"
    /\ src_idx <= Len(sources)
    /\ LET source == sources[src_idx]
       IN  IF ~source.loadable
           THEN \* "ERROR: Cannot import module" / "Cannot load file"; sys.exit(1)
                /\ Ends("exit 1")
                /\ UNCHANGED <<src_idx, sys_modules, registry>>
           ELSE IF source.id \in sys_modules
           THEN \* already imported: nothing is executed again
                /\ src_idx' = src_idx + 1
                /\ UNCHANGED <<sys_modules, registry, emit_pc, outcome>>
           ELSE /\ sys_modules' = sys_modules \cup {source.id}
                /\ registry' = RegisterAll(registry, source.defines)
                /\ src_idx' = src_idx + 1
                /\ UNCHANGED <<emit_pc, outcome>>
    /\ UNCHANGED <<entry, sources, targets, models, locals, next_model, files, files0>>

\* generate: registry = get_registry(); exit 1 if it is empty
GetRegistry ==
    /\ emit_pc = "import"
    /\ src_idx > Len(sources)
    /\ IF get_registry = <<>>
       THEN Ends("exit 1") /\ UNCHANGED <<models, targets>>
       ELSE /\ models' = get_registry
            /\ \E output \in OutputChoices :
                  LET runtime_path == IF output = None
                                      THEN with_name(SourcePath(sources[1]), GeneratedTypes)
                                      ELSE output
                  IN  targets' = [runtime_path |-> runtime_path,
                                  stub_path |-> with_suffix(runtime_path, ".pyi")]
            /\ emit_pc' = "prepass"
            /\ UNCHANGED outcome
    /\ UNCHANGED <<entry, sources, src_idx, sys_modules, registry, locals, next_model,
                   files, files0>>

\* write_field_paths: path types, imports and aliases of all models, before any file is opened
Prepass ==
    /\ emit_pc = "prepass"
    /\ LET all_imports == all_imports_of(classes, models)
       IN  \E order \in Orders(conflicting_modules(all_imports)) :
              locals' = [all_imports |-> all_imports,
                         model_path_types |-> model_path_types_of(classes, models),
                         model_imports |-> model_imports_of(models),
                         module_aliases |-> _build_module_aliases(all_imports, order)]
    /\ emit_pc' = "open runtime"
    /\ UNCHANGED <<entry, sources, targets, src_idx, sys_modules, registry, models, next_model,
                   files, files0, outcome>>

\* runtime_path.open("w"): creates or truncates the file, or raises
OpenRuntime ==
    /\ emit_pc = "open runtime"
    /\ \/ files' = [files EXCEPT !["runtime"] = File(<<>>)] /\ emit_pc' = "open stub" /\ UNCHANGED outcome
       \/ Ends("OSError") /\ UNCHANGED files
    /\ UNCHANGED <<entry, sources, targets, src_idx, sys_modules, registry, models, locals, next_model, files0>>

\* stub_path.open("w"); when it raises, the with statement closes runtime_f
OpenStub ==
    /\ emit_pc = "open stub"
    /\ \/ files' = [files EXCEPT !["stub"] = File(<<>>)] /\ emit_pc' = "runtime header" /\ UNCHANGED outcome
       \/ Ends("OSError") /\ UNCHANGED files
    /\ UNCHANGED <<entry, sources, targets, src_idx, sys_modules, registry, models, locals, next_model, files0>>

\* a write to one of the two files: it is appended, or the write raises and the
\* with statement closes both files with what they hold
Write(path, part, then) ==
    \/ files' = [files EXCEPT ![path] = File(Append(@.content, part))] /\ emit_pc' = then /\ UNCHANGED outcome
    \/ Ends("OSError") /\ UNCHANGED files

\* _write_headers, the runtime half and the stub half
WriteRuntimeHeader ==
    /\ emit_pc = "runtime header"
    /\ Write("runtime", RuntimeHeader(locals.model_imports), "stub header")
    /\ UNCHANGED <<entry, sources, targets, src_idx, sys_modules, registry, models, locals, next_model, files0>>

WriteStubHeader ==
    /\ emit_pc = "stub header"
    /\ Write("stub", StubHeader(locals.all_imports, locals.module_aliases), "runtime section")
    /\ UNCHANGED <<entry, sources, targets, src_idx, sys_modules, registry, models, locals, next_model, files0>>

\* _write_model for one entry of models, the runtime half and the stub half
WriteRuntimeSection ==
    /\ emit_pc = "runtime section"
    /\ next_model <= Len(models)
    /\ Write("runtime", RuntimeSection(models[next_model].name, models[next_model].model),
             "stub section")
    /\ UNCHANGED <<entry, sources, targets, src_idx, sys_modules, registry, models, locals, next_model, files0>>

WriteStubSection ==
    /\ emit_pc = "stub section"
    /\ Write("stub",
             StubSection(classes, models[next_model].name, models[next_model].model,
                         DictGet(locals.model_path_types, models[next_model].name),
                         locals.module_aliases),
             "runtime section")
    /\ next_model' = IF emit_pc' = "done" THEN next_model ELSE next_model + 1
    /\ UNCHANGED <<entry, sources, targets, src_idx, sys_modules, registry, models, locals, files0>>

\* the with statement is left: both files are closed, write_field_paths returns
Close ==
    /\ emit_pc = "runtime section"
    /\ next_model > Len(models)
    /\ Ends("ok")
    /\ UNCHANGED <<entry, sources, targets, src_idx, sys_modules, registry, models, locals, next_model, files, files0>>

FileStates == [{"runtime", "stub"} -> {Absent, Stale}]

InitEmit ==
    /\ files \in FileStates
    /\ files0 = files
    /\ src_idx = 1 /\ sys_modules = {} /\ registry = <<>> /\ next_model = 1
    /\ locals = NotYet
    /\ outcome = "running"
    /\ \/ /\ entry = "cli" /\ sources \in SourceLists /\ models = <<>>
          /\ targets = NotYet /\ emit_pc = "import"
       \/ /\ entry = "api" /\ sources = <<>> /\ models \in ModelMappings
          /\ targets = ApiTargets /\ emit_pc = "prepass"
    /\ \E cs \in EmitSchemas : WalkIdle(cs, <<>>)
    /\ mode = "paths"
    /\ NoAlias /\ NoRender /\ NoRegistry

EmitStep ==
    \/ ImportSource \/ GetRegistry \/ Prepass \/ OpenRuntime \/ OpenStub
    \/ WriteRuntimeHeader \/ WriteStubHeader \/ WriteRuntimeSection \/ WriteStubSection
    \/ Close

NextEmit == EmitStep /\ UNCHANGED <<walk_vars, alias_vars, render_vars, registry_vars>>

SpecEmit == InitEmit /\ [][NextEmit]_vars

-----------------------------------------------------------------------------
(* model.py: the registry under class definitions, clear_registry and
   get_registry *)

\* bound of the model: classes defined in one behaviour
MaxClasses == 3

RegistryNames == {"A", "B"}

\* a subclass of MongoCollectionModel being defined: own says that its class
\* body defines __collection_name__, inherited that a base class has it
ClassDef(id, name, own, inherited) ==
    [id |-> id, name |-> name, own |-> own, inherited |-> inherited]

\* MongoCollectionModel.__init_subclass__: register if
\* "__collection_name__" in cls.__dict__
__init_subclass___hasattr(reg, cls) ==
    IF cls.own \/ cls.inherited THEN DictSet(reg, cls.name, cls) ELSE reg
__init_subclass__(reg, cls) ==
    IF cls.own THEN DictSet(reg, cls.name, cls) ELSE reg

\* a class statement is executed
DefineClass ==
    /\ class_count < MaxClasses
    /\ \E name \in RegistryNames, own \in BOOLEAN, inherited \in BOOLEAN :
          LET cls == ClassDef(class_count + 1, name, own, inherited)
          IN  /\ registry' = __init_subclass__(registry, cls)
              /\ defined' = Append(defined, cls)
    /\ class_count' = class_count + 1
    /\ UNCHANGED <<got, handles>>

\* clear_registry: _MODEL_REGISTRY.clear()
ClearRegistry ==
    /\ registry' = <<>>
    /\ defined' = <<>>
    /\ UNCHANGED <<class_count, got, handles>>

\* bound of the model: returned mappings held at one time
MaxHandles == 2

\* _MODEL_REGISTRY.copy(): a new dict object with the entries of the registry.
\* A mapping a caller holds is its own object with its own content, or it is
\* the registry object itself.
copy_alias(reg) == [is_registry |-> TRUE, content |-> <<>>]
copy(reg) == [is_registry |-> FALSE, content |-> reg]

\* the entries of a held mapping
ContentOf(handle) == IF handle.is_registry THEN registry ELSE handle.content

\* a call of get_registry; the caller keeps the result, dropping the oldest
\* one held when it holds MaxHandles
CallGetRegistry ==
    /\ got' = [called |-> TRUE, value |-> get_registry, at |-> defined]
    /\ LET result == copy(registry)
           kept == IF Len(handles) < MaxHandles THEN handles ELSE Tail(handles)
       IN  handles' = Append(kept, [is_registry |-> result.is_registry,
                                    content |-> result.content,
                                    first |-> ContentOf(result),
                                    at |-> defined])
    /\ UNCHANGED <<registry, defined, class_count>>

\* a class a caller puts into a mapping it holds
Foreign == ClassDef(0, "A", TRUE, FALSE)

DictDel(d, key) == SelectSeq(d, LAMBDA e : e.key # key)

\* a caller adds, replaces or removes an entry of a mapping it holds
MutateReturned ==
    /\ \E h \in 1..Len(handles), name \in RegistryNames, op \in {"set", "del"} :
          LET before == ContentOf(handles[h])
              after == IF op = "set" THEN DictSet(before, name, Foreign)
                       ELSE DictDel(before, name)
          IN  /\ after # before
              /\ IF handles[h].is_registry
                 THEN registry' = after /\ UNCHANGED handles
                 ELSE /\ handles' = [handles EXCEPT ![h].content = after]
                      /\ UNCHANGED registry
    /\ UNCHANGED <<defined, class_count, got>>

InitRegistry == NoWalk /\ NoAlias /\ NoRender /\ NoEmit /\ NoRegistry

RegistryStep == DefineClass \/ ClearRegistry \/ CallGetRegistry \/ MutateReturned

NextRegistry ==
    /\ RegistryStep
    /\ UNCHANGED <<walk_vars, alias_vars, render_vars>>
    /\ UNCHANGED <<entry, sources, targets, src_idx, sys_modules, models, locals, emit_pc,
                   next_model, files, files0, outcome>>

SpecRegistry == InitRegistry /\ [][NextRegistry]_vars

\* the classes of a history whose own body defines __collection_name__, by name
Registered(history, name) ==
    { i \in 1..Len(history) : history[i].own /\ history[i].name = name }
Latest(history, name) ==
    history[CHOOSE i \in Registered(history, name) :
                \A j \in Registered(history, name) : j <= i]

(* C20: get_registry returns exactly the classes defined since the last
   clear_registry whose own body defines __collection_name__, keyed by class
   name, the latest definition of a name replacing the earlier ones; a class
   that does not define __collection_name__ itself is never registered, and
   right after clear_registry the registry is empty. *)
C20_RegistryContents ==
    got.called =>
        /\ \A i, j \in 1..Len(got.value) :
              i # j => got.value[i].name # got.value[j].name
        /\ \A i \in 1..Len(got.value) :
              /\ Registered(got.at, got.value[i].name) # {}
              /\ got.value[i].model = Latest(got.at, got.value[i].name)
              /\ got.value[i].model.own
        /\ \A name \in RegistryNames :
              Registered(got.at, name) # {} =>
                  \E i \in 1..Len(got.value) : got.value[i].name = name
        /\ got.at = <<>> => got.value = <<>>

\* the entries of a dict, as a set
Entries(d) == { <<d[i].key, d[i].value>> : i \in 1..Len(d) }
\* what the define/clear history alone puts into the registry
ExpectedEntries(history) ==
    { <<name, Latest(history, name)>> :
        name \in { n \in RegistryNames : Registered(history, n) # {} } }

(* C21: get_registry returns a fresh copy: a returned mapping is never the
   registry object, two calls with no registration in between return equal
   mappings, and adding, replacing or removing entries of a returned mapping
   leaves the registry and every later get_registry result as the class
   definitions and clear_registry calls made them. *)
C21_FreshCopy ==
    /\ \A h \in 1..Len(handles) :
          /\ ~handles[h].is_registry
          /\ Entries(handles[h].first) = ExpectedEntries(handles[h].at)
    /\ \A h, g \in 1..Len(handles) :
          handles[h].at = handles[g].at => handles[h].first = handles[g].first
    /\ Entries(registry) = ExpectedEntries(defined)
    /\ got.called => Entries([i \in 1..Len(got.value) |->
                                [key |-> got.value[i].name, value |-> got.value[i].model]])
                      = ExpectedEntries(got.at)

\* two results of the same registry, the first changed by its holder, and a
\* third call made afterwards that still returns the registered class
C21_Witness ==
    /\ Len(handles) = 2
    /\ handles[1].at = handles[2].at /\ handles[1].at # <<>>
    /\ handles[1].first # <<>>
    /\ handles[1].content = <<>>
    /\ handles[2].content = handles[2].first
    /\ registry = handles[2].first

\* A defined twice and a subclass that only inherits __collection_name__: the
\* second A is returned, the inheriting B is not
C20_Witness ==
    /\ got.called
    /\ Len(got.at) = 3
    /\ got.at[1].name = "A" /\ got.at[1].own
    /\ got.at[2].name = "A" /\ got.at[2].own
    /\ got.at[3].name = "B" /\ ~got.at[3].own /\ got.at[3].inherited
    /\ got.value = <<[name |-> "A", model |-> got.at[2]]>>

-----------------------------------------------------------------------------
(* Vocabulary of the properties of the generator *)

Finished == emit_pc = "done"
\* write_field_paths has been called
WriteCalled ==
    \/ entry = "api"
    \/ entry = "cli" /\ src_idx > Len(sources) /\ emit_pc # "import" /\ registry # <<>>
EmptyRegistry ==
    \/ entry = "api" /\ models = <<>>
    \/ entry = "cli" /\ src_idx > Len(sources) /\ registry = <<>>

\* the whole text of one run, per file
CompleteRuntime ==
    File(<<RuntimeHeader(model_imports_of(models))>>
         \o [i \in 1..Len(models) |-> RuntimeSection(models[i].name, models[i].model)])
CompleteStub ==
    File(<<StubHeader(locals.all_imports, locals.module_aliases)>>
         \o [i \in 1..Len(models) |->
               StubSection(classes, models[i].name, models[i].model,
                           collect_field_path_types(classes, models[i].model),
                           locals.module_aliases)])

(* C1: invoking emission with an empty registry fails with a configuration
   error and writes no files: neither file is created or modified. *)
C1_EmptyRegistryRefused ==
    EmptyRegistry =>
        /\ files = files0
        /\ Finished => outcome = "exit 1"

(* C2: emission is atomic: when the run has ended, either both files hold the
   complete new output or both are as they were before the call; a failed run
   leaves them as they were. *)
C2_AtomicWrite ==
    (Finished /\ WriteCalled) =>
        \/ files = files0 /\ outcome # "ok"
        \/ files["runtime"] = CompleteRuntime /\ files["stub"] = CompleteStub
           /\ outcome = "ok"

-----------------------------------------------------------------------------
(* C9: _resolve_alias picks the wire name by fixed precedence: the
   serialization alias if set; else the validation alias if it is a plain
   string; else the alias generator applied to the declared name if the model
   has one; else the declared name. *)
C9_AliasPrecedence ==
    alias_out # NotYet =>
        LET info == alias_in.info
            ser == info.serialization_alias
            val == info.validation_alias
            gen == alias_in.gen
            out == alias_out.value
        IN  /\ ser # None => out = ser.value
            /\ (ser = None /\ val.kind = "str") => out = val.value
            /\ (ser = None /\ val.kind # "str" /\ gen # "None")
                  => out = CallGenerator(gen, info.name)
            /\ (ser = None /\ val.kind # "str" /\ gen = "None") => out = info.name

\* an explicit alias has won over the generator, which would have given another name
C9_Witness ==
    /\ alias_out # NotYet
    /\ alias_in.info.serialization_alias = None
    /\ alias_in.info.validation_alias = StrValue(<<95, 105, 100>>)
    /\ alias_in.gen = "to_upper"
    /\ alias_out.value = <<95, 105, 100>>
    /\ CallGenerator(alias_in.gen, alias_in.info.name) # alias_out.value

-----------------------------------------------------------------------------
(* Vocabulary of the properties of the renderer *)

\* through Annotated and type aliases
RECURSIVE Unwrapped(_)
Unwrapped(ann) ==
    IF ann.kind = "TypeAliasType" THEN Unwrapped(ann.value)
    ELSE IF ann.kind = "Annotated" THEN Unwrapped(ann.args[1])
    ELSE ann

IsListAtTop(ann) == Unwrapped(ann).kind = "list" /\ Unwrapped(ann).args # <<>>

\* n and T of a list nested n deep over T
RECURSIVE ListDepth(_)
ListDepth(ann) ==
    IF IsListAtTop(ann) THEN 1 + ListDepth(Unwrapped(ann).args[1]) ELSE 0
RECURSIVE ElementType(_)
ElementType(ann) ==
    IF IsListAtTop(ann) THEN ElementType(Unwrapped(ann).args[1]) ELSE ann

\* list[...[src]...], k deep
RECURSIVE Nested(_, _)
Nested(k, src) == IF k = 0 THEN src ELSE "list[" \o Nested(k - 1, src) \o "]"

(* C10: for a field whose type is a list nested n deep over T (n >= 1), the
   query-value rendering is T | list[T] | ... | list^n[T]: n+1 members in
   order of increasing depth. *)
C10_QueryValueAllLevels ==
    (render_out # NotYet /\ ListDepth(render_in.annotation) >= 1) =>
        LET n == ListDepth(render_in.annotation)
            T == _annotation_to_source(ElementType(render_in.annotation),
                                       render_in.module_aliases)
        IN  render_out.query = JoinStr(" | ", [k \in 1..(n + 1) |-> Nested(k - 1, T)])

\* list[list[list[str]]] rendered
C10_Witness ==
    /\ render_out # NotYet
    /\ render_in.annotation = ListOf(ListOf(ListOf(Builtin("str"))))
    /\ render_out.query = "str | list[str] | list[list[str]] | list[list[list[str]]]"

(* C11: for a field whose type, through Annotated and type aliases, is not a
   list at the top level (a union with a list variant included), the
   query-value rendering equals the exact-field rendering. *)
C11_OtherShapesIdentical ==
    (render_out # NotYet /\ ~IsListAtTop(render_in.annotation)) =>
        render_out.query = render_out.exact

\* list[str] | None rendered: the list variant is not expanded
C11_Witness ==
    /\ render_out # NotYet
    /\ render_in.annotation = Optional(ListOf(Builtin("str")))
    /\ render_out.query = "list[str] | None"
    /\ render_out.exact = "list[str] | None"

-----------------------------------------------------------------------------
(* Vocabulary of the properties of the emitted files *)

\* the stub's header has been written; its import statements
StubHeaderWritten ==
    /\ locals # NotYet /\ files["stub"].exists /\ files["stub"].content # <<>>
    /\ files["stub"].content[1].part = "header"
StubImports == files["stub"].content[1].imports
RuntimeHeaderWritten ==
    /\ locals # NotYet /\ files["runtime"].exists /\ files["runtime"].content # <<>>
    /\ files["runtime"].content[1].part = "header"
RuntimeImports == files["runtime"].content[1].imports

\* the sections written so far; section k of a file is for models[k]
SectionsWritten(path) ==
    IF locals # NotYet /\ files[path].exists /\ Len(files[path].content) > 1
    THEN 1..(Len(files[path].content) - 1) ELSE {}
SectionOf(path, k) == files[path].content[k + 1]

\* the namespaces of the import set and the bare names each provides
Namespaces == modules_of(locals.all_imports)
UserNamespaces == Namespaces \ {<<"typing">>}
Provides(m) == names_of(locals.all_imports, m)
Collides(m) == \E n \in Namespaces \ {m} : Provides(m) \cap Provides(n) # {}
Aliased(m) == DictHas(locals.module_aliases, m)

\* an annotation with every class reference replaced by the name it is to be
\* referred by: alias.Name for a class of an aliased namespace, Name otherwise
ReferenceName(c) ==
    IF Aliased(ClassModule(c))
    THEN DictGet(locals.module_aliases, ClassModule(c)) \o "." \o ClassName(c)
    ELSE ClassName(c)
RECURSIVE Referenced(_)
Referenced(ann) ==
    CASE ann.kind = "model" -> Builtin(ReferenceName(ann.name))
      [] ann.kind = "TypeAliasType" -> TypeAliasOf(Referenced(ann.value))
      [] ann.kind \in {"list", "union", "dict", "Annotated"} ->
            [ann EXCEPT !.args = [i \in 1..Len(ann.args) |-> Referenced(ann.args[i])]]
      [] ann.kind = "generic" ->
            GenericOf(ann.origin, [i \in 1..Len(ann.args) |-> Referenced(ann.args[i])])
      [] OTHER -> ann

\* the declared type of a path of a root model
TypeOfPath(model, path) == DictGet(collect_field_path_types(classes, model), path)

(* C12: a user namespace is aliased iff it provides a bare name another
   namespace of the import set provides; an aliased namespace is imported in
   the stub only by "import M as alias" and every reference to its types in
   Query, Fields and the accessor is alias.Name; every other user namespace is
   imported only by "from M import Name" and referenced by bare name; without
   colliding names the alias map is empty and all imports are unqualified. *)
C12_CollisionResolution ==
    /\ locals # NotYet =>
          /\ \A m \in UserNamespaces : Aliased(m) <=> Collides(m)
          /\ DictKeys(locals.module_aliases) \subseteq UserNamespaces
          /\ (\A m \in Namespaces : ~Collides(m)) => locals.module_aliases = <<>>
    /\ StubHeaderWritten =>
          \A m \in UserNamespaces :
             LET lines == { i \in 1..Len(StubImports) : StubImports[i].module = m }
             IN  /\ Cardinality(lines) = 1
                 /\ \A i \in lines :
                       IF Aliased(m)
                       THEN StubImports[i] = ImportAs(m, DictGet(locals.module_aliases, m))
                       ELSE /\ StubImports[i].stmt = "from"
                            /\ Range(StubImports[i].names) = Provides(m)
    /\ \A k \in SectionsWritten("stub") :
          LET section == SectionOf("stub", k)
              model == models[k].model
          IN  /\ section.collection.model_ref = ReferenceName(model)
              /\ \A i \in 1..Len(section.fields) :
                    LET ann == TypeOfPath(model, section.fields[i].key)
                    IN  /\ section.fields[i].value = _annotation_to_source(Referenced(ann), <<>>)
                        /\ section.query[i].value \in
                              { _annotation_to_source(Referenced(ann), <<>>),
                                "Op[" \o _query_value_type_src(Referenced(ann), <<>>) \o "]" }

(* C13: no two import statements of the stub header, the fixed typing, pymongo
   and typed_mongo imports included, bring the same bare name into scope from
   two different namespaces. *)
C13_NoAmbiguousImport ==
    StubHeaderWritten =>
        \A i, j \in 1..Len(StubImports) :
            (/\ StubImports[i].stmt = "from" /\ StubImports[j].stmt = "from"
             /\ StubImports[i].module # StubImports[j].module)
            => Range(StubImports[i].names) \cap Range(StubImports[j].names) = {}

\* the keys of the Query and Fields declarations of a section, "$expr" left out
QueryKeys(section) ==
    { section.query[i].key : i \in 1..Len(section.query) } \ {EXPR}
FieldsKeys(section) == { section.fields[i].key : i \in 1..Len(section.fields) }
ExactSource(model, path) ==
    _annotation_to_source(TypeOfPath(model, path), locals.module_aliases)
QuerySource(model, path) ==
    _query_value_type_src(TypeOfPath(model, path), locals.module_aliases)

(* C14 as claimed: the Query declaration of every model maps every field path
   to Op[query-value type] and ends with the key "$expr" typed dict[str, Any]. *)
C14_QueryShape_Claimed ==
    \A k \in SectionsWritten("stub") :
        LET section == SectionOf("stub", k)
            model == models[k].model
            n == Len(section.query)
        IN  /\ n >= 1
            /\ section.query[n] = [key |-> EXPR, value |-> "dict[str, Any]"]
            /\ \A i \in 1..(n - 1) :
                  section.query[i].value =
                      "Op[" \o QuerySource(model, section.query[i].key) \o "]"

(* C14: the Query declaration of every model maps every field path whose exact
   rendering is not dict[str, Any] to Op[query-value type], a path whose exact
   rendering is dict[str, Any] to dict[str, Any] itself, and ends with the key
   "$expr" typed dict[str, Any]. *)
C14_QueryShape ==
    \A k \in SectionsWritten("stub") :
        LET section == SectionOf("stub", k)
            model == models[k].model
            n == Len(section.query)
        IN  /\ n >= 1
            /\ section.query[n] = [key |-> EXPR, value |-> "dict[str, Any]"]
            /\ \A i \in 1..(n - 1) :
                  section.query[i].value =
                      IF ExactSource(model, section.query[i].key) = "dict[str, Any]"
                      THEN "dict[str, Any]"
                      ELSE "Op[" \o QuerySource(model, section.query[i].key) \o "]"

\* a stub section with a str field under "_id" and a dict[str, Any] field under "y"
C14_Witness ==
    /\ 1 \in SectionsWritten("stub")
    /\ SectionOf("stub", 1).query =
          << [key |-> <<95, 105, 100>>, value |-> "Op[str]"],
             [key |-> <<121>>, value |-> "dict[str, Any]"],
             [key |-> EXPR, value |-> "dict[str, Any]"] >>

(* C15: in every model's stub section the Path enumeration is
   collect_field_paths(model), sorted; the Query keys other than "$expr" and
   the Fields keys are that same set, which is the key set of
   collect_field_path_types(model); Fields maps each path to the exact
   rendering of the path's declared type. *)
C15_DeclarationsAgree ==
    \A k \in SectionsWritten("stub") :
        LET section == SectionOf("stub", k)
            model == models[k].model
        IN  /\ StrictlySorted(section.path)
            /\ Range(section.path) = Range(collect_field_paths(classes, model))
            /\ DictKeys(collect_field_path_types(classes, model)) = Range(section.path)
            /\ QueryKeys(section) = Range(section.path)
            /\ FieldsKeys(section) = Range(section.path)
            /\ Len(section.fields) = Len(section.path)
            /\ Len(section.query) = Len(section.path) + 1
            /\ \A i \in 1..Len(section.fields) :
                  section.fields[i].value = ExactSource(model, section.fields[i].key)

\* the section of a model with x: list[B] and y: Literal['a', 1]
C15_Witness ==
    /\ 1 \in SectionsWritten("stub")
    /\ SectionOf("stub", 1).path = << <<120>>, <<120, 46, 120>>, <<121>> >>
    /\ SectionOf("stub", 1).fields =
          << [key |-> <<120>>, value |-> "list[B]"],
             [key |-> <<120, 46, 120>>, value |-> "str"],
             [key |-> <<121>>, value |-> "Literal['a', 1]"] >>

(* C16: in the runtime file the name each accessor passes to TypedCollection
   is brought into scope by an import of the runtime header and denotes the
   model class of the accessor's registry entry. *)
C16_AccessorBoundToModel ==
    \A k \in SectionsWritten("runtime") :
        LET ref == SectionOf("runtime", k).collection.model_ref
            lines == { i \in 1..Len(RuntimeImports) :
                         /\ RuntimeImports[i].stmt = "from"
                         /\ ref \in Range(RuntimeImports[i].names) }
        IN  /\ lines # {}
            /\ LET last == CHOOSE i \in lines : \A j \in lines : j <= i
               IN  /\ RuntimeImports[last].module = ClassModule(models[k].model)
                   /\ ref = ClassName(models[k].model)

(* C17: the runtime file holds placeholders only: Path is str, Query and
   Fields are dict[str, Any], and the whole text is determined by the names
   of the mapping and the module and class name of each root model, whatever
   the fields of the models. *)
C17_RuntimePlaceholders ==
    /\ RuntimeHeaderWritten =>
          LET roots == { <<ClassModule(models[i].model), ClassName(models[i].model)>> :
                           i \in 1..Len(models) }
              modules == sorted_modules({ p[1] : p \in roots })
          IN  RuntimeImports =
                << From(<<"typing">>, <<"Any">>),
                   From(<<"pymongo", "asynchronous", "database">>, <<"AsyncDatabase">>),
                   From(<<"typed_mongo">>, <<"TypedCollection">>) >>
                \o [i \in 1..Len(modules) |->
                       From(modules[i],
                            sorted_names({ p[2] : p \in { q \in roots : q[1] = modules[i] } }))]
    /\ \A k \in SectionsWritten("runtime") :
          SectionOf("runtime", k) =
              [part |-> "section", name |-> models[k].name,
               path |-> "str", query |-> "dict[str, Any]", fields |-> "dict[str, Any]",
               collection |-> [base |-> "TypedCollection", model_ref |-> models[k].name]]

\* a finished run over two models, the first with fields
C17_Witness ==
    /\ emit_pc = "done" /\ outcome = "ok"
    /\ Len(models) = 2
    /\ Len(classes[models[1].model].model_fields) = 2
    /\ SectionsWritten("runtime") = {1, 2}
    /\ SectionOf("runtime", 1).path = "str"

\* the classes an annotation refers to, the arguments of a generic included
RECURSIVE ClassRefs(_)
ClassRefs(ann) ==
    CASE ann.kind = "model" -> {ann.name}
      [] ann.kind = "TypeAliasType" -> ClassRefs(ann.value)
      [] ann.kind \in {"list", "union", "dict", "Annotated", "generic"} ->
            UNION { ClassRefs(ann.args[i]) : i \in 1..Len(ann.args) }
      [] OTHER -> {}

\* the stub's import block brings the class into scope, by name or through an alias
InStubScope(c) ==
    \E i \in 1..Len(StubImports) :
        /\ StubImports[i].module = ClassModule(c)
        /\ StubImports[i].stmt = "from" => ClassName(c) \in Range(StubImports[i].names)

(* C19: the stub is valid standalone source: the Path enumeration of every
   model is a non-empty Literal[...], models without fields included, and
   every class referenced in a Query, Fields or accessor declaration is
   brought into scope by the stub's import block. *)
C19_StubStandalone ==
    \A k \in SectionsWritten("stub") :
        LET section == SectionOf("stub", k)
            model == models[k].model
        IN  /\ section.path # <<>>
            /\ InStubScope(model)
            /\ \A i \in 1..Len(section.fields) :
                  \A c \in ClassRefs(TypeOfPath(model, section.fields[i].key)) :
                      InStubScope(c)

(* C18: an annotation outside every rendering rule (not None, a union, list,
   dict, literal, Any, a class, nor a wrapper of one of these) is rendered as
   the catch-all "Any", generation continuing. *)
C18_UnrenderableIsAny ==
    (render_out # NotYet /\ Unwrapped(render_in.annotation).kind = "other") =>
        render_out.exact = "Any"

\* the text of the two files as a function of the registry alone: the import
\* set and the alias map computed from the classes and the mapping
RegistryImports == all_imports_of(classes, models)
RegistryAliases ==
    _build_module_aliases(RegistryImports,
                          sorted_modules(conflicting_modules(RegistryImports)))
RegistryStub ==
    File(<<StubHeader(RegistryImports, RegistryAliases)>>
         \o [i \in 1..Len(models) |->
               StubSection(classes, models[i].name, models[i].model,
                           collect_field_path_types(classes, models[i].model),
                           RegistryAliases)])

(* C22: emission is deterministic and starts fresh: when write_field_paths
   returns, the runtime text and the stub text are functions of the registry
   alone, whatever order the import sets were iterated in and whatever the two
   files held before the call. *)
C22_Deterministic ==
    (Finished /\ outcome = "ok") =>
        /\ files["runtime"] = CompleteRuntime
        /\ files["stub"] = RegistryStub

\* a finished run over stale files whose alias map was built in the order
\* app.other, app.models
C22_Witness ==
    /\ Finished /\ outcome = "ok"
    /\ files0["runtime"] = Stale /\ files0["stub"] = Stale
    /\ Len(locals.module_aliases) = 2
    /\ locals.module_aliases[1].key = <<"app", "other">>
    /\ files["stub"] = RegistryStub

\* the imports of the whole registry: of every path type of every model, and
\* every root model
WholeImports ==
    UNION { LET types == collect_field_path_types(classes, models[i].model)
            IN  UNION { _collect_imports(types[j].value) : j \in 1..Len(types) }
                \cup { <<ClassModule(models[i].model), ClassName(models[i].model)>> } :
            i \in 1..Len(models) }
WholeAliases ==
    { <<m, _module_alias(m)>> : m \in conflicting_modules(WholeImports) }

(* C23: the import set and the alias map are computed from the whole registry
   before either file is opened or written; every stub section is rendered
   against that one alias map, and the sections of both files are written in
   the iteration order of the registry. *)
C23_PrepassFirst ==
    /\ files # files0 =>
          /\ locals # NotYet
          /\ locals.all_imports = WholeImports
          /\ Entries(locals.module_aliases) = WholeAliases
    /\ \A path \in {"runtime", "stub"} :
          \A k \in SectionsWritten(path) :
              /\ k <= Len(models)
              /\ SectionOf(path, k).name = models[k].name
    /\ \A k \in SectionsWritten("stub") :
          /\ Entries(locals.module_aliases) = WholeAliases
          /\ SectionOf("stub", k) =
                StubSection(classes, models[k].name, models[k].model,
                            collect_field_path_types(classes, models[k].model),
                            locals.module_aliases)

\* the first section of the stub written with aliases that only the second
\* model of the registry makes necessary
C23_Witness ==
    /\ Len(models) = 2
    /\ SectionsWritten("stub") = {1}
    /\ models[1].model = "A" /\ models[2].model = "A2"
    /\ classes["A"].model_fields = <<>>
    /\ SectionOf("stub", 1).collection.model_ref = "_app_models.A"

-----------------------------------------------------------------------------
\* the nested records named by the variants of a union, through list wrappers
UnionVariants(ann) ==
    { ListElement(ann.args[k]).name :
        k \in {j \in 1..Len(ann.args) : ListElement(ann.args[j]).kind = "model"} }
IsUnionOfModels(ann) == ann.kind = "union" /\ UnionVariants(ann) # {}
AliasOnce(M, i) ==
    \A k \in 1..Len(FieldsOf(M)) : k # i => AliasOf(M, k) # AliasOf(M, i)

(* C24 as claimed: for a field f of a collected model whose type is a union
   with nested-record variants, the paths below f are exactly the paths of
   collect_field_paths of each variant, cyclic schemas included. *)
C24_UnionVariants_Claimed ==
    (AllCollected /\ mode = "paths") =>
        \A M \in Models : \A i \in 1..Len(FieldsOf(M)) :
            IsUnionOfModels(FieldsOf(M)[i].annotation) =>
                Below(Range(results[M]), AliasOf(M, i))
                    = UNION { Range(results[N]) :
                                N \in UnionVariants(FieldsOf(M)[i].annotation) }

(* C24: for a field f of the collected model whose type is a union with
   nested-record variants, f being the only field of the model with its wire
   alias, the paths below f are the union over the non-null variants N of the
   paths of N collected with N on the branch; for a variant on no reference
   cycle these are the paths of collect_field_paths(N). A None variant adds
   nothing. *)
C24_UnionVariants ==
    (AllCollected /\ mode = "paths") =>
        \A M \in Models : \A i \in 1..Len(FieldsOf(M)) :
            (IsUnionOfModels(FieldsOf(M)[i].annotation) /\ AliasOnce(M, i)) =>
                LET variants == UnionVariants(FieldsOf(M)[i].annotation)
                    below == Below(Range(results[M]), AliasOf(M, i))
                IN  /\ below = UNION { walk_paths(classes, N, EmptyStr, {N}) :
                                         N \in variants }
                    /\ \A N \in variants :
                          ~OnCycle(N) => Range(results[N]) \subseteq below

\* A has a field typed A | B | None, and the fields of both variants show below it
C24_Witness ==
    /\ AllCollected /\ mode = "paths"
    /\ \E i \in 1..Len(FieldsOf("A")) :
          /\ FieldsOf("A")[i].annotation
                = UnionOf(<<ModelClass("A"), ModelClass("B"), NoneType>>)
          /\ AliasOnce("A", i)
          /\ FieldsOf("B") # <<>>
          /\ \E k \in 1..Len(FieldsOf("B")) :
                AliasOf("B", k) \in Below(Range(results["A"]), AliasOf("A", i))
          /\ AliasOf("A", i) \in Below(Range(results["A"]), AliasOf("A", i))

-----------------------------------------------------------------------------
\* a file has been created, truncated or written by the run
Touched(path) == files[path] # files0[path]
\* every source of the command line has been imported
AllImported ==
    /\ src_idx > Len(sources)
    /\ \A i \in 1..Len(sources) : sources[i].loadable /\ sources[i].id \in sys_modules

(* C25: in a run of the CLI's generate, an output file is touched only after
   every source has been imported and the registry has been found non-empty; a
   run with a source that cannot be imported or with an empty registry ends
   with exit status 1 and both files as they were; a run that succeeds has
   written the runtime file at the output path, the stub in the same
   directory under the same name with the suffix .pyi. *)
C25_ImportBeforeOpen ==
    entry = "cli" =>
        /\ (Touched("runtime") \/ Touched("stub") \/ emit_pc \in {"open stub", "runtime header"})
              => (AllImported /\ registry # <<>> /\ models = get_registry)
        /\ (Finished /\ ((\E i \in 1..Len(sources) : ~sources[i].loadable) \/ registry = <<>>))
              => (outcome = "exit 1" /\ files = files0)
        /\ outcome = "exit 1" => (files = files0 /\ targets = NotYet)
        /\ targets # NotYet =>
              /\ AllImported /\ registry # <<>>
              /\ targets.runtime_path \in
                    (OutputChoices \ {None})
                        \cup {Path(SourcePath(sources[1]).parent, "_generated_types", ".py")}
              /\ targets.stub_path
                    = Path(targets.runtime_path.parent, targets.runtime_path.stem, ".pyi")
        /\ outcome = "ok" =>
              /\ targets # NotYet
              /\ files["runtime"] = CompleteRuntime
              /\ files["stub"] = CompleteStub

\* a run of the CLI on two sources, without --output, has written both files:
\* the stub is app/_generated_types.pyi
C25_Witness ==
    /\ entry = "cli" /\ outcome = "ok"
    /\ Len(sources) = 2 /\ Len(models) = 2
    /\ targets.runtime_path = Path("app", "_generated_types", ".py")
    /\ targets.stub_path = Path("app", "_generated_types", ".pyi")
    /\ files0["stub"] = Absent /\ files["stub"].exists

-----------------------------------------------------------------------------
(* C26: two distinct conflicting namespaces never receive the same alias: the
   alias map the pre-pass builds is injective. *)
C26_AliasUnique ==
    locals # NotYet =>
        \A i, j \in 1..Len(locals.module_aliases) :
            i # j => locals.module_aliases[i].value # locals.module_aliases[j].value

-----------------------------------------------------------------------------
\* the paths a finished collect_* call returned for m, in either mode
CollectedPaths(m) ==
    IF mode = "paths" THEN Range(results[m]) ELSE DictKeys(results[m])
\* the positions of the dots of a path, and the number of its segments
Dots(q) == {k \in 1..Len(q) : q[k] = 46}
Segments(q) == 1 + Cardinality(Dots(q))

(* C27: the path set of a collected model is prefix-closed: the wire alias of
   every field, a nested-record field included, is a path; no path has an
   empty segment; and with every path of more than one segment the path
   without its last segment is collected. *)
C27_PrefixClosed ==
    \A M \in walked :
        /\ \A i \in 1..Len(FieldsOf(M)) : AliasOf(M, i) \in CollectedPaths(M)
        /\ \A q \in CollectedPaths(M) :
              /\ q # EmptyStr
              /\ \A k \in Dots(q) : SubSeq(q, 1, k - 1) \in CollectedPaths(M)

\* A is collected with a path of three segments, below a field typed list[list[B]]
C27_Witness ==
    /\ "A" \in walked
    /\ \E i \in 1..Len(FieldsOf("A")) :
          /\ FieldsOf("A")[i].annotation = ListOf(ListOf(ModelClass("B")))
          /\ \E q \in CollectedPaths("A") :
                /\ Segments(q) = 3
                /\ HasPrefix(q, AliasOf("A", i) \o <<46>>)
                /\ \A k \in Dots(q) : SubSeq(q, 1, k - 1) \in CollectedPaths("A")

\* the models reachable from m, m included
Reachable(m) == {m} \cup Reach(m)
\* how often m is on the call stack
TimesOnStack(m) == Cardinality({i \in 1..Len(stack) : stack[i].model = m})

(* C28: along a recursion branch the root model is entered at most twice and
   every other model at most once, and a path returned for a root from which
   N models are reachable (the root included) has at most N + 1 segments. *)
C28_DepthBounded ==
    /\ pc = "walking" =>
          \A m \in Models :
              TimesOnStack(m) <= (IF m = stack[1].model THEN 2 ELSE 1)
    /\ \A M \in walked :
          \A q \in CollectedPaths(M) : Segments(q) <= Cardinality(Reachable(M)) + 1

\* A and B refer to each other, and a path of A has three segments: A, B, A
C28_Witness ==
    /\ "A" \in walked
    /\ Cardinality(Reachable("A")) = 2
    /\ "B" \in Refs("A") /\ "A" \in Refs("B") /\ "A" \notin Refs("A")
    /\ \E q \in CollectedPaths("A") : Segments(q) = Cardinality(Reachable("A")) + 1

-----------------------------------------------------------------------------
\* the assignments path_types[full_path] = annotation of one traversal, in order
AssignmentsOf(model) == walk_types(classes, model, EmptyStr, InitialSeen(model))
Writers(assignments, path) == {i \in 1..Len(assignments) : assignments[i].key = path}
\* the type the last of them assigns to a path
LastAssigned(assignments, path) ==
    assignments[CHOOSE i \in Writers(assignments, path) :
                    \A j \in Writers(assignments, path) : j <= i].value

(* C29: when several fields resolve to one full path, collect_field_path_types
   holds one entry for the path, with the type of the field visited last, and
   the Query and Fields declarations of the stub hold one entry for the path,
   rendered from that type. *)
C29_LastWriterWins ==
    \A k \in SectionsWritten("stub") :
        LET section == SectionOf("stub", k)
            model == models[k].model
            assignments == AssignmentsOf(model)
            types == collect_field_path_types(classes, model)
        IN  \A w \in 1..Len(assignments) :
               LET path == assignments[w].key
                   last == LastAssigned(assignments, path)
                   exact == _annotation_to_source(last, locals.module_aliases)
               IN  /\ Cardinality({i \in 1..Len(types) : types[i].key = path}) = 1
                   /\ \A i \in 1..Len(types) : types[i].key = path => types[i].value = last
                   /\ Cardinality({i \in 1..Len(section.fields) :
                                      section.fields[i].key = path}) = 1
                   /\ Cardinality({i \in 1..Len(section.query) :
                                      section.query[i].key = path}) = 1
                   /\ \A i \in 1..Len(section.fields) :
                         section.fields[i].key = path => section.fields[i].value = exact
                   /\ \A i \in 1..Len(section.query) :
                         section.query[i].key = path =>
                             section.query[i].value =
                                 IF exact = "dict[str, Any]" THEN exact
                                 ELSE "Op[" \o _query_value_type_src(last, locals.module_aliases)
                                            \o "]"

\* x (serialized as "y"): str and y: list[int] both write the path "y": the
\* stub types it by y
C29_Witness ==
    /\ 1 \in SectionsWritten("stub")
    /\ Cardinality(Writers(AssignmentsOf(models[1].model), <<121>>)) = 2
    /\ SectionOf("stub", 1).fields = << [key |-> <<121>>, value |-> "list[int]"] >>
    /\ SectionOf("stub", 1).query =
          << [key |-> <<121>>, value |-> "Op[int | list[int]]"],
             [key |-> EXPR, value |-> "dict[str, Any]"] >>

Spec == SpecWalk

=============================================================================
